---- MODULE Spec2Model ----
(***************************************************************************)
(* Model of GitGUI (src/gitprojectmanager.pyw): a PyQt5 window whose       *)
(* handlers build an argument vector, hand it to subprocess.run, and show  *)
(* the result.                                                             *)
(*                                                                         *)
(* Text is a sequence of atoms.  An atom is a one-character string, or a   *)
(* longer string standing for a run of non-blank, non-'*' characters.      *)
(* An argument vector is a sequence of texts.                              *)
(***************************************************************************)
EXTENDS Integers, Sequences, FiniteSets, TLC

(***************************************************************************)
(* Bounds                                                                  *)
(***************************************************************************)
\* longest raw command output enumerated by the parsing specification
MaxLen == 4

(***************************************************************************)
(* Python string operations used by the handlers                           *)
(***************************************************************************)
\* characters str.strip() and str.split() treat as blank
IsSpace(c) == c \in {" ", "\t", "\n"}

RECURSIVE LStrip(_)
LStrip(s) == IF s # <<>> /\ IsSpace(Head(s)) THEN LStrip(Tail(s)) ELSE s

RECURSIVE RStrip(_)
RStrip(s) == IF s # <<>> /\ IsSpace(s[Len(s)]) THEN RStrip(SubSeq(s, 1, Len(s) - 1)) ELSE s

\* str.strip()
Strip(s) == RStrip(LStrip(s))

\* str.replace(c, '')
Remove(s, c) == SelectSeq(s, LAMBDA x : x # c)

\* str.startswith(p)
StartsWith(s, p) == Len(s) >= Len(p) /\ SubSeq(s, 1, Len(p)) = p

\* str.split(sep): the pieces between separators, empty pieces kept
RECURSIVE SplitOn(_, _)
SplitOn(s, sep) ==
    IF \E i \in 1..Len(s) : s[i] = sep
    THEN LET i == CHOOSE k \in 1..Len(s) : s[k] = sep /\ \A j \in 1..(k - 1) : s[j] # sep
         IN  <<SubSeq(s, 1, i - 1)>> \o SplitOn(SubSeq(s, i + 1, Len(s)), sep)
    ELSE <<s>>

\* str.split(): maximal runs of non-blank characters
RECURSIVE SplitWS(_)
SplitWS(s) ==
    LET t == LStrip(s) IN
    IF t = <<>> THEN <<>>
    ELSE IF \E i \in 1..Len(t) : IsSpace(t[i])
         THEN LET i == CHOOSE k \in 1..Len(t) : IsSpace(t[k]) /\ \A j \in 1..(k - 1) : ~IsSpace(t[j])
              IN  <<SubSeq(t, 1, i - 1)>> \o SplitWS(SubSeq(t, i, Len(t)))
         ELSE <<t>>

\* repr() of a list of strings, as it appears in str(CalledProcessError)
RECURSIVE ReprItems(_)
ReprItems(cmd) ==
    IF cmd = <<>> THEN <<>>
    ELSE <<"'">> \o Head(cmd) \o <<"'">>
         \o (IF Len(cmd) > 1 THEN <<", ">> ELSE <<>>) \o ReprItems(Tail(cmd))

ReprList(cmd) == <<"[">> \o ReprItems(cmd) \o <<"]">>

\* s occurs in t as a contiguous piece
IsInfix(s, t) == \E i \in 1..(Len(t) - Len(s) + 1) : SubSeq(t, i, i + Len(s) - 1) = s

(***************************************************************************)
(* Branch-list parsing (refresh_branches, refresh_remotes)                 *)
(***************************************************************************)
\* loop body of refresh_branches: branch.replace('*', '').strip()
\* the line stripped with its marker left in
CleanLineKeepingMarker(line) == Strip(line)

CleanLine(line) == Strip(Remove(line, "*"))

RECURSIVE CleanLines(_)
CleanLines(lines) ==
    IF lines = <<>> THEN <<>>
    ELSE LET br == CleanLine(Head(lines)) IN
         (IF br # <<>> THEN <<br>> ELSE <<>>) \o CleanLines(Tail(lines))

\* the branches list built from result.stdout
ParseBranches(stdout) == CleanLines(SplitOn(stdout, "\n"))

\* the output cut at single spaces only
ParseRemotesOnSpace(stdout) == SplitOn(stdout, " ")

\* result.stdout.split() in refresh_remotes
ParseRemotes(stdout) == SplitWS(stdout)

(***************************************************************************)
(* Input domains                                                           *)
(***************************************************************************)
GIT == <<"g", "i", "t">>

\* contents a line edit may hold when its button is pressed
Texts == { <<>>, <<" ">>, <<" ", "a">>, <<";", " ", "r", "m">> }

\* contents of the repository path field
Paths == { <<>>, <<" ">>, <<"/repo">> }

\* lines typed into the terminal tab
Commands ==
    { <<>>, GIT, GIT \o <<" ", "status">>, <<" ">> \o GIT \o <<" ", "log">>,
      GIT \o <<"k">>, GIT \o <<"hub", " ", "x">>, <<"l", "s">> }

\* entries of the toolbar branch selector (_setup_toolbar)
ToolbarBranches == { <<"main">>, <<"master">>, <<"develop">> }

\* what a launched command may write to standard output
Stdouts == { <<"*", " ", "a", "\n", " ", " ", "b", "\n">>, <<"o", " ", "u", "\n">> }

\* what a failing command may write to standard error
Stderrs == { <<"fatal: not a git repository">> }

ExitCodes == { 1, 128 }

\* how a launched command ends
Outcomes ==
    { [returncode |-> 0, stdout |-> s, stderr |-> <<>>] : s \in Stdouts }
    \cup { [returncode |-> c, stdout |-> <<>>, stderr |-> e] : c \in ExitCodes, e \in Stderrs }

\* one run of a command: is the executable on the search path, does the
\* working directory exist, and how the command ends once launched
Worlds ==
    { [exe |-> TRUE, dir |-> TRUE, returncode |-> oc.returncode,
       stdout |-> oc.stdout, stderr |-> oc.stderr] : oc \in Outcomes }
    \cup { [exe |-> x, dir |-> ~x, returncode |-> 0, stdout |-> <<>>, stderr |-> <<>>] :
             x \in BOOLEAN }

\* a second run on the same machine
Again(w, oc) ==
    [exe |-> w.exe, dir |-> w.dir, returncode |-> oc.returncode,
     stdout |-> oc.stdout, stderr |-> oc.stderr]

(***************************************************************************)
(* State                                                                   *)
(***************************************************************************)
VARIABLES
    running,               \* the event loop of main() is still alive
    repo_path,             \* text of the repository path field
    current_branch,        \* self.current_branch
    merge_source_combo, merge_target_combo, delete_branch_combo,
    rename_branch_combo, branch_for_push, remote_list,   \* selector items
    \* what the most recent handler did
    handler,               \* its name
    inputs,                \* the widget texts it read, in order
    calls,                 \* its subprocess.run calls, in order
    errors,                \* the messages it passed to show_error
    appended,              \* <<pane, text>> for each text it put in an output pane
    status_label,          \* the text it wrote to the status label, Unchanged if none
    escaped,               \* the exception that left it uncaught, "none" if none
    \* the handler in progress, when its steps are followed one by one
    in_slot,               \* a slot is executing on the interface thread
    todo,                  \* the argument vectors it has still to run
    waiting,               \* it is inside subprocess.run, waiting for the child
    live                   \* the children started and not yet exited

persistent ==
    <<repo_path, current_branch, merge_source_combo, merge_target_combo,
      delete_branch_combo, rename_branch_combo, branch_for_push, remote_list>>

vars ==
    <<running, repo_path, current_branch, merge_source_combo, merge_target_combo,
      delete_branch_combo, rename_branch_combo, branch_for_push, remote_list,
      handler, inputs, calls, errors, appended, status_label, escaped,
      in_slot, todo, waiting, live>>

Unchanged == <<"<unchanged>">>

(***************************************************************************)
(* subprocess.run(args, cwd=..., capture_output=True, text=True,           *)
(* check=True)                                                             *)
(***************************************************************************)
\* OSError when the child cannot be started, CalledProcessError when it
\* exits non-zero (check=True), otherwise the completed process
Run(args, cwd, w) ==
    LET dir_exists == w.dir /\ cwd # <<>> IN
    IF ~dir_exists \/ ~w.exe
    THEN [args |-> args, cwd |-> cwd, shell |-> FALSE,
          dir_exists |-> dir_exists, exe_found |-> w.exe,
          raised |-> "OSError", returncode |-> -1, stdout |-> <<>>, stderr |-> <<>>]
    ELSE [args |-> args, cwd |-> cwd, shell |-> FALSE,
          dir_exists |-> TRUE, exe_found |-> TRUE,
          raised |-> IF w.returncode # 0 THEN "CalledProcessError" ELSE "none",
          returncode |-> w.returncode, stdout |-> w.stdout, stderr |-> w.stderr]

Ok(r) == r.raised = "none"

\* str(err) for a CalledProcessError
StrCPE(r) ==
    <<"Command '">> \o ReprList(r.args) \o <<"' returned non-zero exit status ">>
        \o <<ToString(r.returncode)>> \o <<".">>

\* str(err) for an OSError
StrOSError(r) == <<"[Errno 2] No such file or directory">>

StrErr(r) == IF r.raised = "CalledProcessError" THEN StrCPE(r) ELSE StrOSError(r)

\* the exception swallowed
CaughtSilently(r) == <<>>

\* "except subprocess.CalledProcessError as err: self.show_error(str(err))"
CaughtCPE(r) == IF r.raised = "CalledProcessError" THEN <<StrCPE(r)>> ELSE <<>>

\* an OSError passes an "except subprocess.CalledProcessError" clause
Uncaught(r) == IF r.raised = "OSError" THEN "OSError" ELSE "none"

\* QComboBox.currentText(): an item, or the empty text when there is none
Selections(items) == IF items = <<>> THEN { <<>> } ELSE { items[i] : i \in 1..Len(items) }

\* The handler returns to the event loop.  An exception that leaves a slot
\* reaches PyQt, which aborts the process (qFatal) or only prints the
\* traceback, depending on the PyQt version; main() installs no excepthook.
Finish(h, ins, cs, errs, app, st, esc) ==
    /\ handler' = h
    /\ inputs' = ins
    /\ calls' = cs
    /\ errors' = errs
    /\ appended' = app
    /\ status_label' = st
    /\ escaped' = esc
    /\ running' \in (IF esc = "none" THEN { TRUE } ELSE BOOLEAN)
    /\ UNCHANGED <<in_slot, todo, waiting, live>>

Init ==
    /\ running = TRUE
    /\ repo_path = <<>>
    /\ current_branch = <<"main">>
    /\ merge_source_combo = <<>>
    /\ merge_target_combo = <<>>
    /\ delete_branch_combo = <<>>
    /\ rename_branch_combo = <<>>
    /\ branch_for_push = <<>>
    /\ remote_list = <<>>
    /\ handler = "__init__"
    /\ inputs = <<>>
    /\ calls = <<>>
    /\ errors = <<>>
    /\ appended = <<>>
    /\ status_label = <<"Ready">>
    /\ escaped = "none"
    /\ in_slot = FALSE
    /\ todo = <<>>
    /\ waiting = FALSE
    /\ live = <<>>

(***************************************************************************)
(* Argument vectors                                                        *)
(***************************************************************************)
GitInitArgs == <<GIT, <<"init">>>>
GitAddArgs == <<GIT, <<"add">>, <<".">>>>
\* the message cut at blanks, as a shell would
GitCommitArgsSplit(msg) == <<GIT, <<"commit">>, <<"-m">>>> \o SplitWS(msg)

GitCommitArgs(msg) == <<GIT, <<"commit">>, <<"-m">>, msg>>
GitPushArgs(branch) == <<GIT, <<"push">>, <<"origin">>, branch>>
GitStatusArgs == <<GIT, <<"status">>>>
CreateBranchArgs(branch) == <<GIT, <<"checkout">>, <<"-b">>, branch>>
DeleteBranchArgs(branch) == <<GIT, <<"branch">>, <<"-d">>, branch>>
RenameBranchArgs(old_branch, new_branch) == <<GIT, <<"branch">>, <<"-m">>, old_branch, new_branch>>
BranchListArgs == <<GIT, <<"branch">>, <<"--list">>>>
CheckoutArgs(branch) == <<GIT, <<"checkout">>, branch>>
MergeArgs(source_branch) == <<GIT, <<"merge">>, source_branch>>
GitFetchArgs == <<GIT, <<"fetch">>>>
HistoryArgs == <<GIT, <<"log">>, <<"--oneline">>, <<"--graph">>, <<"--all">>>>
AddRemoteArgs(r_name, r_url) == <<GIT, <<"remote">>, <<"add">>, r_name, r_url>>
RemoteListArgs == <<GIT, <<"remote">>>>
\* --force added whatever the box says
PushAdvancedArgsForced(branch, force) == <<GIT, <<"push">>, <<"origin">>, <<"--force">>, branch>>

PushAdvancedArgs(branch, force) ==
    IF force THEN <<GIT, <<"push">>, <<"origin">>, <<"--force">>, branch>>
    ELSE <<GIT, <<"push">>, <<"origin">>, branch>>
GitPullArgs == <<GIT, <<"pull">>>>

(***************************************************************************)
(* Handlers                                                                *)
(***************************************************************************)
Pane(w, text) == [pane |-> w, text |-> text]

\* the success lines run although the call raised
SingleRegardless(h, ins, r, app, st) ==
    /\ Finish(h, ins, <<r>>, CaughtCPE(r), app, st, Uncaught(r))
    /\ UNCHANGED persistent

\* the common shape: one call inside
\* "try: ... except subprocess.CalledProcessError as err: show_error(str(err))"
Single(h, ins, r, app, st) ==
    /\ Finish(h, ins, <<r>>, CaughtCPE(r),
              IF Ok(r) THEN app ELSE <<>>,
              IF Ok(r) THEN st ELSE Unchanged,
              Uncaught(r))
    /\ UNCHANGED persistent

\* "self.show_error(...); return" before any call
Reject(h, ins, msg) ==
    /\ Finish(h, ins, <<>>, <<msg>>, <<>>, Unchanged, "none")
    /\ UNCHANGED persistent

\* a fixed line shown in place of the captured output
git_init_fixed_message(w) ==
    /\ running
    /\ LET r == Run(GitInitArgs, repo_path, w) IN
       Single("git_init", <<>>, r,
              <<Pane("output_text", <<"Repository initialized">>)>>, <<"Repository initialized">>)

git_init(w) ==
    /\ running
    /\ LET r == Run(GitInitArgs, repo_path, w) IN
       Single("git_init", <<>>, r,
              <<Pane("output_text", r.stdout)>>, <<"Repository initialized">>)

git_add(w) ==
    /\ running
    /\ LET r == Run(GitAddArgs, repo_path, w) IN
       Single("git_add", <<>>, r,
              <<Pane("output_text", <<"Files added to staging area">>)>>, <<"Files staged">>)

\* the commit run without the check of the message
git_commit_unchecked(w, text) ==
    /\ running
    /\ LET r == Run(GitCommitArgs(Strip(text)), repo_path, w) IN
       Single("git_commit", <<text>>, r,
              <<Pane("output_text", r.stdout)>>, <<"Changes committed">>)

git_commit(w, text) ==
    /\ running
    /\ LET msg == Strip(text) IN
       IF msg = <<>>
       THEN Reject("git_commit", <<text>>, <<"Please enter a commit message">>)
       ELSE LET r == Run(GitCommitArgs(msg), repo_path, w) IN
            Single("git_commit", <<text>>, r,
                   <<Pane("output_text", r.stdout)>>, <<"Changes committed">>)

git_push(w) ==
    /\ running
    /\ LET r == Run(GitPushArgs(current_branch), repo_path, w) IN
       Single("git_push", <<>>, r,
              <<Pane("output_text", <<"Changes pushed successfully!">>)>>,
              <<"Changes pushed to remote">>)

\* a status that also rewrites the path field with its stripped text
git_status_normalising(w) ==
    /\ running
    /\ LET r == Run(GitStatusArgs, repo_path, w) IN
       Finish("git_status", <<>>, <<r>>, CaughtCPE(r),
              IF Ok(r) THEN <<Pane("output_text", r.stdout)>> ELSE <<>>,
              Unchanged, Uncaught(r))
    /\ repo_path' = Strip(repo_path)
    /\ UNCHANGED <<current_branch, merge_source_combo, merge_target_combo,
                   delete_branch_combo, rename_branch_combo, branch_for_push, remote_list>>

git_status(w) ==
    /\ running
    /\ LET r == Run(GitStatusArgs, repo_path, w) IN
       Single("git_status", <<>>, r, <<Pane("output_text", r.stdout)>>, Unchanged)

create_branch(w, text) ==
    /\ running
    /\ LET branch == Strip(text) IN
       IF branch = <<>>
       THEN Reject("create_branch", <<text>>, <<"Please enter a branch name">>)
       ELSE LET r == Run(CreateBranchArgs(branch), repo_path, w) IN
            Single("create_branch", <<text>>, r,
                   <<Pane("advanced_output", r.stdout)>>,
                   <<"Created and switched to branch: ">> \o branch)

\* the deleted branch taken out of the delete selector
delete_branch_updating(w, branch) ==
    /\ running
    /\ branch \in Selections(delete_branch_combo)
    /\ IF branch = <<>>
       THEN Reject("delete_branch", <<branch>>, <<"Please select a branch to delete">>)
       ELSE LET r == Run(DeleteBranchArgs(branch), repo_path, w) IN
            /\ Finish("delete_branch", <<branch>>, <<r>>, CaughtCPE(r),
                      IF Ok(r) THEN <<Pane("advanced_output", r.stdout)>> ELSE <<>>,
                      IF Ok(r) THEN <<"Deleted branch: ">> \o branch ELSE Unchanged,
                      Uncaught(r))
            /\ delete_branch_combo' =
                   IF Ok(r) THEN SelectSeq(delete_branch_combo, LAMBDA b : b # branch)
                   ELSE delete_branch_combo
            /\ UNCHANGED <<repo_path, current_branch, merge_source_combo, merge_target_combo,
                           rename_branch_combo, branch_for_push, remote_list>>

delete_branch(w, branch) ==
    /\ running
    /\ branch \in Selections(delete_branch_combo)
    /\ IF branch = <<>>
       THEN Reject("delete_branch", <<branch>>, <<"Please select a branch to delete">>)
       ELSE LET r == Run(DeleteBranchArgs(branch), repo_path, w) IN
            Single("delete_branch", <<branch>>, r,
                   <<Pane("advanced_output", r.stdout)>>, <<"Deleted branch: ">> \o branch)

\* rejected only when both names are empty
rename_branch_both_empty(w, sel, text) ==
    /\ running
    /\ sel \in Selections(rename_branch_combo)
    /\ LET old_branch == Strip(sel)
           new_branch == Strip(text)
       IN  IF old_branch = <<>> /\ new_branch = <<>>
           THEN Reject("rename_branch", <<sel, text>>,
                       <<"Current or new branch name cannot be empty.">>)
           ELSE LET r == Run(RenameBranchArgs(old_branch, new_branch), repo_path, w) IN
                Single("rename_branch", <<sel, text>>, r,
                       <<Pane("advanced_output", r.stdout)>>,
                       <<"Branch '">> \o old_branch \o <<"' renamed to '">> \o new_branch \o <<"'.">>)

rename_branch(w, sel, text) ==
    /\ running
    /\ sel \in Selections(rename_branch_combo)
    /\ LET old_branch == Strip(sel)
           new_branch == Strip(text)
       IN  IF old_branch = <<>> \/ new_branch = <<>>
           THEN Reject("rename_branch", <<sel, text>>,
                       <<"Current or new branch name cannot be empty.">>)
           ELSE LET r == Run(RenameBranchArgs(old_branch, new_branch), repo_path, w) IN
                Single("rename_branch", <<sel, text>>, r,
                       <<Pane("advanced_output", r.stdout)>>,
                       <<"Branch '">> \o old_branch \o <<"' renamed to '">> \o new_branch \o <<"'.">>)

refresh_branches(w) ==
    /\ running
    /\ IF Strip(repo_path) = <<>>
       THEN /\ Finish("refresh_branches", <<>>, <<>>, <<>>, <<>>, Unchanged, "none")
            /\ UNCHANGED persistent
       ELSE LET r == Run(BranchListArgs, repo_path, w)
                branches == ParseBranches(r.stdout)
            IN  /\ Finish("refresh_branches", <<>>, <<r>>,
                          IF r.raised = "CalledProcessError"
                          THEN <<<<"Failed to refresh branches: ">> \o StrErr(r)>>
                          ELSE IF r.raised # "none"
                          THEN <<<<"Unexpected error while refreshing branches: ">> \o StrErr(r)>>
                          ELSE <<>>,
                          <<>>, Unchanged, "none")
                /\ IF Ok(r)
                   THEN /\ merge_source_combo' = branches
                        /\ merge_target_combo' = branches
                        /\ delete_branch_combo' = branches
                        /\ rename_branch_combo' = branches
                        /\ branch_for_push' = branches
                   ELSE UNCHANGED <<merge_source_combo, merge_target_combo,
                                    delete_branch_combo, rename_branch_combo, branch_for_push>>
                /\ UNCHANGED <<repo_path, current_branch, remote_list>>

\* the merge run whatever the checkout did
MergeCallsBoth(r1, result_merge) == <<r1, result_merge>>

\* the calls of handle_merge_branches: an exception raised by the checkout
\* leaves the try block before the merge
MergeCalls(r1, result_merge) == IF Ok(r1) THEN <<r1, result_merge>> ELSE <<r1>>

handle_merge_branches(w, oc2, src, tgt) ==
    /\ running
    /\ src \in Selections(merge_source_combo)
    /\ tgt \in Selections(merge_target_combo)
    /\ LET source_branch == Strip(src)
           target_branch == Strip(tgt)
       IN  IF source_branch = <<>> \/ target_branch = <<>>
           THEN Reject("handle_merge_branches", <<src, tgt>>,
                       <<"Please select source and target branches.">>)
           ELSE LET r1 == Run(CheckoutArgs(target_branch), repo_path, w)
                    result_merge == Run(MergeArgs(source_branch), repo_path, Again(w, oc2))
                    cs == MergeCalls(r1, result_merge)
                    last == cs[Len(cs)]
                IN  /\ Finish("handle_merge_branches", <<src, tgt>>, cs, CaughtCPE(last),
                              IF Ok(last)
                              THEN <<Pane("advanced_output", result_merge.stdout)>> ELSE <<>>,
                              IF Ok(last)
                              THEN <<"Branch '">> \o source_branch \o <<"' merged into '">>
                                       \o target_branch \o <<"'.">>
                              ELSE Unchanged,
                              Uncaught(last))
                    /\ UNCHANGED persistent

git_fetch(w) ==
    /\ running
    /\ LET r == Run(GitFetchArgs, repo_path, w) IN
       Single("git_fetch", <<>>, r,
              <<Pane("advanced_output", r.stdout)>>, <<"Fetched latest updates from remote">>)

refresh_branch_history(w) ==
    /\ running
    /\ LET r == Run(HistoryArgs, repo_path, w) IN
       Single("refresh_branch_history", <<>>, r,
              <<Pane("history_text.clear", <<>>), Pane("history_text", r.stdout)>>,
              <<"Branch history refreshed.">>)

add_remote(w, text) ==
    /\ running
    /\ LET url == Strip(text) IN
       IF url = <<>>
       THEN Reject("add_remote", <<text>>, <<"Please enter remote repository URL">>)
       ELSE LET r == Run(AddRemoteArgs(<<"origin">>, url), repo_path, w) IN
            Single("add_remote", <<text>>, r,
                   <<Pane("output_text", <<"Remote repository added successfully.">>)>>,
                   <<"Remote added">>)

add_remote_custom(w, text1, text2) ==
    /\ running
    /\ LET r_name == Strip(text1)
           r_url == Strip(text2)
       IN  IF r_name = <<>> \/ r_url = <<>>
           THEN Reject("add_remote_custom", <<text1, text2>>,
                       <<"Please enter remote name and URL">>)
           ELSE LET r == Run(AddRemoteArgs(r_name, r_url), repo_path, w) IN
                Single("add_remote_custom", <<text1, text2>>, r,
                       <<Pane("advanced_output", r.stdout)>>,
                       <<"Remote '">> \o r_name \o <<"' added.">>)

\* both selectors emptied before their listing commands are run
refresh_remotes_clearing(w, oc2) ==
    /\ running
    /\ LET result == Run(RemoteListArgs, repo_path, w)
           branch_list_result == Run(BranchListArgs, repo_path, Again(w, oc2))
       IN  IF ~Ok(result)
           THEN /\ Finish("refresh_remotes", <<>>, <<result>>, CaughtCPE(result),
                          <<>>, Unchanged, Uncaught(result))
                /\ remote_list' = <<>>
                /\ branch_for_push' = <<>>
           ELSE /\ remote_list' = ParseRemotes(result.stdout)
                /\ Finish("refresh_remotes", <<>>, <<result, branch_list_result>>,
                          CaughtCPE(branch_list_result),
                          IF Ok(branch_list_result)
                          THEN <<Pane("advanced_output", <<"Remote list refreshed.">>)>> ELSE <<>>,
                          Unchanged, Uncaught(branch_list_result))
                /\ branch_for_push' = IF Ok(branch_list_result)
                                      THEN ParseBranches(branch_list_result.stdout)
                                      ELSE <<>>
    /\ UNCHANGED <<repo_path, current_branch, merge_source_combo,
                   merge_target_combo, delete_branch_combo, rename_branch_combo>>

refresh_remotes(w, oc2) ==
    /\ running
    /\ LET result == Run(RemoteListArgs, repo_path, w)
           branch_list_result == Run(BranchListArgs, repo_path, Again(w, oc2))
       IN  IF ~Ok(result)
           THEN /\ Finish("refresh_remotes", <<>>, <<result>>, CaughtCPE(result),
                          <<>>, Unchanged, Uncaught(result))
                /\ UNCHANGED persistent
           ELSE /\ remote_list' = ParseRemotes(result.stdout)
                /\ Finish("refresh_remotes", <<>>, <<result, branch_list_result>>,
                          CaughtCPE(branch_list_result),
                          IF Ok(branch_list_result)
                          THEN <<Pane("advanced_output", <<"Remote list refreshed.">>)>> ELSE <<>>,
                          Unchanged, Uncaught(branch_list_result))
                /\ branch_for_push' = IF Ok(branch_list_result)
                                      THEN ParseBranches(branch_list_result.stdout)
                                      ELSE branch_for_push
                /\ UNCHANGED <<repo_path, current_branch, merge_source_combo,
                               merge_target_combo, delete_branch_combo, rename_branch_combo>>

\* QCheckBox.isChecked(), as recorded among the inputs of a handler
Box(checked) == IF checked THEN <<"checked">> ELSE <<"unchecked">>

git_push_advanced(w, sel, checked) ==
    /\ running
    /\ sel \in Selections(branch_for_push)
    /\ LET branch == Strip(sel) IN
       IF branch = <<>>
       THEN Reject("git_push_advanced", <<sel, Box(checked)>>, <<"No branch selected for push">>)
       ELSE LET r == Run(PushAdvancedArgs(branch, checked), repo_path, w) IN
            Single("git_push_advanced", <<sel, Box(checked)>>, r,
                   <<Pane("advanced_output", r.stdout)>>,
                   <<"Pushed to remote (branch: ">> \o branch \o <<")">>)

git_pull(w) ==
    /\ running
    /\ LET r == Run(GitPullArgs, repo_path, w) IN
       Single("git_pull", <<>>, r,
              <<Pane("output_text", r.stdout), Pane("advanced_output", r.stdout)>>,
              <<"Changes pulled from remote">>)

\* the previous branch put back when the checkout fails
change_branch_restoring(w, oc2, branch_name) ==
    /\ running
    /\ branch_name # current_branch
    /\ LET result == Run(CreateBranchArgs(branch_name), repo_path, w) IN
       /\ current_branch' = IF Ok(result) THEN branch_name ELSE current_branch
       /\ Finish("change_branch", <<branch_name>>, <<result>>, CaughtCPE(result), <<>>,
                 IF Ok(result) THEN <<"Switched to branch: ">> \o branch_name ELSE Unchanged,
                 Uncaught(result))
    /\ UNCHANGED <<repo_path, merge_source_combo, merge_target_combo,
                   delete_branch_combo, rename_branch_combo, branch_for_push, remote_list>>

\* slot of branch_combo.currentTextChanged: the newly selected entry
change_branch(w, oc2, branch_name) ==
    /\ running
    /\ branch_name # current_branch
    /\ current_branch' = branch_name
    /\ LET result == Run(CreateBranchArgs(branch_name), repo_path, w)
           r2 == Run(CheckoutArgs(branch_name), repo_path, Again(w, oc2))
       IN  IF ~Ok(result)
           THEN Finish("change_branch", <<branch_name>>, <<result>>, CaughtCPE(result),
                       <<>>, Unchanged, Uncaught(result))
           ELSE IF result.returncode # 0
           THEN Finish("change_branch", <<branch_name>>, <<result, r2>>, CaughtCPE(r2), <<>>,
                       IF Ok(r2) THEN <<"Switched to branch: ">> \o branch_name ELSE Unchanged,
                       Uncaught(r2))
           ELSE Finish("change_branch", <<branch_name>>, <<result>>, <<>>, <<>>,
                       <<"Switched to branch: ">> \o branch_name, "none")
    /\ UNCHANGED <<repo_path, merge_source_combo, merge_target_combo,
                   delete_branch_combo, rename_branch_combo, branch_for_push, remote_list>>

\* the directory dialog returns the chosen path, or the empty text on cancel
browse_repository(chosen) ==
    /\ running
    /\ repo_path' = IF chosen # <<>> THEN chosen ELSE repo_path
    /\ Finish("browse_repository", <<chosen>>, <<>>, <<>>, <<>>, Unchanged, "none")
    /\ UNCHANGED <<current_branch, merge_source_combo, merge_target_combo,
                   delete_branch_combo, rename_branch_combo, branch_for_push, remote_list>>

\* the user edits the repository path field by hand
repo_path_edited(text) ==
    /\ running
    /\ text # repo_path
    /\ repo_path' = text
    /\ Finish("repo_path_edited", <<text>>, <<>>, <<>>, <<>>, Unchanged, "none")
    /\ UNCHANGED <<current_branch, merge_source_combo, merge_target_combo,
                   delete_branch_combo, rename_branch_combo, branch_for_push, remote_list>>

\* "if not command.startswith('git')"
Allowed(command) == StartsWith(command, GIT)

execute_command(w, text) ==
    /\ running
    /\ LET command == Strip(text)
           path == Strip(repo_path)
       IN  IF path = <<>>
           THEN Reject("execute_command", <<text>>, <<"Please select a repository path first">>)
           ELSE IF ~Allowed(command)
           THEN Reject("execute_command", <<text>>, <<"Only git commands are allowed">>)
           ELSE LET command_list == SplitWS(command)
                    r == Run(command_list, path, w)
                IN  /\ Finish("execute_command", <<text>>, <<r>>,
                              IF r.raised = "CalledProcessError"
                              THEN <<<<"Command failed: ">> \o StrErr(r)>>
                              ELSE IF r.raised = "OSError"
                              THEN <<<<"System error: ">> \o StrErr(r)>>
                              ELSE <<>>,
                              (IF Ok(r)
                               THEN <<Pane("terminal_output",
                                           <<"$ ">> \o command \o <<"\n">> \o r.stdout)>>
                               ELSE <<>>) \o <<Pane("command_input.clear", <<>>)>>,
                              Unchanged, "none")
                    /\ UNCHANGED persistent

Next ==
    \/ \E w \in Worlds : git_init(w)
    \/ \E w \in Worlds : git_add(w)
    \/ \E w \in Worlds, text \in Texts : git_commit(w, text)
    \/ \E w \in Worlds : git_push(w)
    \/ \E w \in Worlds : git_status(w)
    \/ \E w \in Worlds, text \in Texts : create_branch(w, text)
    \/ \E w \in Worlds, b \in Selections(delete_branch_combo) : delete_branch(w, b)
    \/ \E w \in Worlds, b \in Selections(rename_branch_combo), text \in Texts :
           rename_branch(w, b, text)
    \/ \E w \in Worlds : refresh_branches(w)
    \/ \E w \in Worlds, oc2 \in Outcomes,
          s \in Selections(merge_source_combo), t \in Selections(merge_target_combo) :
           handle_merge_branches(w, oc2, s, t)
    \/ \E w \in Worlds : git_fetch(w)
    \/ \E w \in Worlds : refresh_branch_history(w)
    \/ \E w \in Worlds, text \in Texts : add_remote(w, text)
    \/ \E w \in Worlds, text1 \in Texts, text2 \in Texts : add_remote_custom(w, text1, text2)
    \/ \E w \in Worlds, oc2 \in Outcomes : refresh_remotes(w, oc2)
    \/ \E w \in Worlds, b \in Selections(branch_for_push), checked \in BOOLEAN :
           git_push_advanced(w, b, checked)
    \/ \E w \in Worlds : git_pull(w)
    \/ \E w \in Worlds, oc2 \in Outcomes, b \in ToolbarBranches : change_branch(w, oc2, b)
    \/ \E chosen \in Paths : browse_repository(chosen)
    \/ \E text \in Paths : repo_path_edited(text)
    \/ \E w \in Worlds, text \in Commands : execute_command(w, text)

Spec == Init /\ [][Next]_vars

(***************************************************************************)
(* The first refresh after a repository is chosen, over every raw output   *)
(***************************************************************************)
Alphabet == { "*", " ", "\n", "a" }

\* every text over Alphabet of at most MaxLen characters
RawOutputs == UNION { [1..n -> Alphabet] : n \in 0..MaxLen }

\* a launched command that exits 0 having written raw
Wrote(raw) ==
    [exe |-> TRUE, dir |-> TRUE, returncode |-> 0, stdout |-> raw, stderr |-> <<>>]

InitParse ==
    /\ running = TRUE
    /\ repo_path = <<"/repo">>
    /\ current_branch = <<"main">>
    /\ merge_source_combo = <<>>
    /\ merge_target_combo = <<>>
    /\ delete_branch_combo = <<>>
    /\ rename_branch_combo = <<>>
    /\ branch_for_push = <<>>
    /\ remote_list \in { <<>>, <<<<"o">>, <<"u">>>> }
    /\ handler = "browse_repository"
    /\ inputs = <<<<"/repo">>>>
    /\ calls = <<>>
    /\ errors = <<>>
    /\ appended = <<>>
    /\ status_label = Unchanged
    /\ escaped = "none"
    /\ in_slot = FALSE
    /\ todo = <<>>
    /\ waiting = FALSE
    /\ live = <<>>

NextParse ==
    /\ handler = "browse_repository"
    /\ \/ \E raw \in RawOutputs : refresh_branches(Wrote(raw))
       \/ \E out \in Stdouts, raw \in RawOutputs : refresh_remotes(Wrote(out), Wrote(raw))
       \/ \E raw \in RawOutputs, out \in Stdouts : refresh_remotes(Wrote(raw), Wrote(out))

SpecParse == InitParse /\ [][NextParse]_vars

(***************************************************************************)
(* The lifetimes of the child processes: a handler followed call by call.  *)
(* Only the calls are followed; what the handlers show is left aside.      *)
(***************************************************************************)
\* the calls a handler makes, in order, for the inputs it may read now; an
\* exception raised by one call skips the calls after it
Plans ==
    { <<"git_init", <<GitInitArgs>>>>, <<"git_add", <<GitAddArgs>>>>,
      <<"git_status", <<GitStatusArgs>>>>, <<"git_fetch", <<GitFetchArgs>>>>,
      <<"git_pull", <<GitPullArgs>>>>, <<"refresh_branch_history", <<HistoryArgs>>>>,
      <<"git_push", <<GitPushArgs(current_branch)>>>>,
      <<"refresh_remotes", <<RemoteListArgs, BranchListArgs>>>>,
      <<"refresh_branches", IF Strip(repo_path) = <<>> THEN <<>> ELSE <<BranchListArgs>>>> }
    \cup { <<"git_commit", IF Strip(t) = <<>> THEN <<>> ELSE <<GitCommitArgs(Strip(t))>>>> :
             t \in Texts }
    \cup { <<"create_branch", IF Strip(t) = <<>> THEN <<>> ELSE <<CreateBranchArgs(Strip(t))>>>> :
             t \in Texts }
    \cup { <<"delete_branch", IF b = <<>> THEN <<>> ELSE <<DeleteBranchArgs(b)>>>> :
             b \in Selections(delete_branch_combo) }
    \cup { <<"rename_branch", IF Strip(b) = <<>> \/ Strip(t) = <<>> THEN <<>>
                              ELSE <<RenameBranchArgs(Strip(b), Strip(t))>>>> :
             b \in Selections(rename_branch_combo), t \in Texts }
    \cup { <<"handle_merge_branches",
             IF Strip(s) = <<>> \/ Strip(t) = <<>> THEN <<>>
             ELSE <<CheckoutArgs(Strip(t)), MergeArgs(Strip(s))>>>> :
             s \in Selections(merge_source_combo), t \in Selections(merge_target_combo) }
    \cup { <<"add_remote", IF Strip(t) = <<>> THEN <<>>
                           ELSE <<AddRemoteArgs(<<"origin">>, Strip(t))>>>> : t \in Texts }
    \cup { <<"add_remote_custom", IF Strip(n) = <<>> \/ Strip(u) = <<>> THEN <<>>
                                  ELSE <<AddRemoteArgs(Strip(n), Strip(u))>>>> :
             n \in Texts, u \in Texts }
    \cup { <<"git_push_advanced", IF Strip(b) = <<>> THEN <<>>
                                  ELSE <<PushAdvancedArgs(Strip(b), c)>>>> :
             b \in Selections(branch_for_push), c \in BOOLEAN }
    \cup { <<"change_branch", <<CreateBranchArgs(b)>>>> : b \in ToolbarBranches \ { current_branch } }
    \cup { <<"execute_command",
             IF Strip(repo_path) = <<>> \/ ~Allowed(Strip(c)) THEN <<>> ELSE <<SplitWS(Strip(c))>>>> :
             c \in Commands }

\* the event loop calls a slot; it calls the next one only after this one
\* has returned
SlotEnter(h, plan) ==
    /\ running
    /\ ~in_slot
    /\ in_slot' = TRUE
    /\ handler' = h
    /\ todo' = plan
    /\ calls' = <<>>
    /\ UNCHANGED <<running, persistent, inputs, errors, appended, status_label, escaped,
                   waiting, live>>

\* the child started and the handler going on without waiting for it
ChildStartNoWait(w) ==
    /\ in_slot /\ ~waiting /\ todo # <<>>
    /\ live' = Append(live, Head(todo))
    /\ todo' = Tail(todo)
    /\ UNCHANGED <<running, persistent, handler, inputs, calls, errors, appended,
                   status_label, escaped, in_slot, waiting>>

\* subprocess.run starts the child and waits for it; a child that cannot
\* be started raises at once
ChildStart(w) ==
    /\ in_slot /\ ~waiting /\ todo # <<>>
    /\ LET r == Run(Head(todo), repo_path, w) IN
       IF r.raised = "OSError"
       THEN /\ calls' = Append(calls, r)
            /\ todo' = <<>>
            /\ UNCHANGED <<waiting, live>>
       ELSE /\ live' = Append(live, Head(todo))
            /\ waiting' = TRUE
            /\ UNCHANGED <<calls, todo>>
    /\ UNCHANGED <<running, persistent, handler, inputs, errors, appended, status_label,
                   escaped, in_slot>>

\* a child exits; subprocess.run returns to the handler that waits for it,
\* or raises when the exit status is not zero
ChildExit(i, oc) ==
    /\ i \in 1..Len(live)
    /\ live' = SubSeq(live, 1, i - 1) \o SubSeq(live, i + 1, Len(live))
    /\ IF waiting /\ i = Len(live)
       THEN LET r == Run(live[i], repo_path, Again([exe |-> TRUE, dir |-> TRUE], oc)) IN
            /\ calls' = Append(calls, r)
            /\ waiting' = FALSE
            /\ todo' = IF Ok(r) THEN Tail(todo) ELSE <<>>
       ELSE UNCHANGED <<calls, waiting, todo>>
    /\ UNCHANGED <<running, persistent, handler, inputs, errors, appended, status_label,
                   escaped, in_slot>>

\* the handler has no call left and returns to the event loop
SlotReturn ==
    /\ in_slot /\ ~waiting /\ todo = <<>>
    /\ in_slot' = FALSE
    /\ UNCHANGED <<running, persistent, handler, inputs, calls, errors, appended,
                   status_label, escaped, todo, waiting, live>>

\* a repository chosen and its branches listed
InitSteps ==
    /\ running = TRUE
    /\ repo_path = <<"/repo">>
    /\ current_branch = <<"main">>
    /\ merge_source_combo = <<<<"a">>, <<"b">>>>
    /\ merge_target_combo = <<<<"a">>, <<"b">>>>
    /\ delete_branch_combo = <<<<"a">>, <<"b">>>>
    /\ rename_branch_combo = <<<<"a">>, <<"b">>>>
    /\ branch_for_push = <<<<"a">>, <<"b">>>>
    /\ remote_list = <<>>
    /\ handler = "browse_repository"
    /\ inputs = <<<<>>>>
    /\ calls = <<>>
    /\ errors = <<>>
    /\ appended = <<>>
    /\ status_label = Unchanged
    /\ escaped = "none"
    /\ in_slot = FALSE
    /\ todo = <<>>
    /\ waiting = FALSE
    /\ live = <<>>

NextSteps ==
    \/ \E p \in Plans : SlotEnter(p[1], p[2])
    \/ \E w \in Worlds : ChildStart(w)
    \/ \E i \in 1..Len(live), oc \in Outcomes : ChildExit(i, oc)
    \/ SlotReturn

SpecSteps == InitSteps /\ [][NextSteps]_vars

(***************************************************************************)
(* Properties                                                              *)
(***************************************************************************)
NCalls == Len(calls)

\* text that is empty or blank throughout
Blank(text) == \A k \in 1..Len(text) : IsSpace(text[k])

\* C1: whenever a handler issues a request whose working directory does not
\* exist (or is the empty text), the handler ends by showing an error and
\* no exception leaves it.
C1_MissingDirectoryIsReported ==
    \A i \in 1..NCalls :
        (~calls[i].dir_exists /\ calls[i].exe_found) => errors # <<>> /\ escaped = "none"

\* C2: after a failed call of any kind (non-zero exit or launch failure) the
\* application is still running.
C2_FailedCallLeavesAppRunning ==
    (\E i \in 1..NCalls : calls[i].raised # "none") => running

\* C3: a terminal command whose first blank-separated token is not exactly
\* "git" is rejected with an error and nothing is run.
C3_OnlyGitIsExecuted ==
    handler = "execute_command" =>
        LET tokens == SplitWS(inputs[1]) IN
        (tokens = <<>> \/ tokens[1] # GIT) => calls = <<>> /\ errors # <<>>

\* C4: in every call each user-supplied text (commit message, branch name,
\* remote name, remote URL) is exactly one element of the argument vector,
\* the vector has the length fixed for the feature whatever the text holds,
\* and no call goes through a shell.
C4_UserTextIsOneArgument ==
    \A i \in 1..NCalls :
        LET a == calls[i].args IN
        /\ ~calls[i].shell
        /\ handler = "git_commit" => Len(a) = 4 /\ a[4] = Strip(inputs[1])
        /\ handler = "create_branch" => Len(a) = 4 /\ a[4] = Strip(inputs[1])
        /\ handler = "delete_branch" => Len(a) = 4 /\ a[4] = inputs[1]
        /\ handler = "rename_branch" =>
               Len(a) = 5 /\ a[4] = Strip(inputs[1]) /\ a[5] = Strip(inputs[2])
        /\ handler = "add_remote" => Len(a) = 5 /\ a[5] = Strip(inputs[1])
        /\ handler = "add_remote_custom" =>
               Len(a) = 5 /\ a[4] = Strip(inputs[1]) /\ a[5] = Strip(inputs[2])
        /\ handler = "handle_merge_branches" =>
               Len(a) = 3 /\ a[3] = Strip(inputs[IF i = 1 THEN 2 ELSE 1])
        /\ handler = "git_push_advanced" =>
               /\ Len(a) = (IF inputs[2] = Box(TRUE) THEN 5 ELSE 4)
               /\ a[Len(a)] = Strip(inputs[1])
        /\ handler = "change_branch" => Len(a) = IF i = 1 THEN 4 ELSE 3
        /\ handler = "change_branch" => a[Len(a)] = inputs[1]
        /\ handler = "git_push" => Len(a) = 4 /\ a[4] = current_branch

\* a commit whose message holds a blank and a remote URL made of shell
\* syntax have each been passed on
W_C4 ==
    \/ /\ handler = "git_commit" /\ NCalls = 1
       /\ inputs[1] = <<";", " ", "r", "m">> /\ calls[1].raised = "none"
    \/ /\ handler = "add_remote_custom" /\ NCalls = 1
       /\ inputs[2] = <<";", " ", "r", "m">> /\ calls[1].raised = "none"

C6_FailedMergeIsReported ==
    (/\ handler = "handle_merge_branches" /\ NCalls >= 2
     /\ calls[1].raised = "none" /\ calls[2].raised # "none") =>
        /\ Len(errors) = 1
        /\ IsInfix(ReprList(<<GIT, <<"merge">>, Strip(inputs[1])>>), errors[1])
        /\ status_label = Unchanged
        /\ appended = <<>>
        /\ NCalls = 2

W_C6 ==
    /\ handler = "handle_merge_branches" /\ NCalls = 2
    /\ calls[1].raised = "none" /\ calls[2].raised = "CalledProcessError"

\* C7: a commit whose message is empty or blank is rejected with an error
\* and runs nothing; no commit command carries an empty message.
C7_EmptyCommitMessageRejected ==
    handler = "git_commit" =>
        /\ Blank(inputs[1]) => calls = <<>> /\ errors # <<>>
        /\ \A i \in 1..NCalls : calls[i].args[Len(calls[i].args)] # <<>>

W_C7 ==
    /\ handler = "git_commit" /\ inputs[1] = <<" ">>
    /\ calls = <<>> /\ errors = <<<<"Please enter a commit message">>>>

\* C8: every request handed to subprocess.run has a non-empty working
\* directory.
C8_WorkingDirectoryNeverEmpty ==
    \A i \in 1..NCalls : calls[i].cwd # <<>>

\* C9: when a command exits non-zero, an error shown to the user contains
\* the text the command wrote to standard error and the exit code.
C9_ErrorCarriesStderr ==
    \A i \in 1..NCalls :
        calls[i].raised = "CalledProcessError" =>
            \E k \in 1..Len(errors) :
                /\ IsInfix(calls[i].stderr, errors[k])
                /\ IsInfix(<<ToString(calls[i].returncode)>>, errors[k])

\* the reference parser: the line trimmed, one leading marker dropped, the
\* rest trimmed again
RefCleanLine(line) ==
    LET t == Strip(line) IN
    IF t # <<>> /\ Head(t) = "*" THEN Strip(Tail(t)) ELSE t

RECURSIVE RefCleanLines(_)
RefCleanLines(lines) ==
    IF lines = <<>> THEN <<>>
    ELSE LET br == RefCleanLine(Head(lines)) IN
         (IF br # <<>> THEN <<br>> ELSE <<>>) \o RefCleanLines(Tail(lines))

RefParse(raw) == RefCleanLines(SplitOn(raw, "\n"))

\* C10: the branch list that refresh_branches and refresh_remotes build from
\* a raw output equals the reference parse of that output: lines in order,
\* the leading marker and surrounding blanks stripped, empty lines dropped,
\* any other '*' kept.
C10_ParsingEqualsReference ==
    /\ (handler = "refresh_branches" /\ NCalls = 1 /\ calls[1].raised = "none") =>
           /\ merge_source_combo = RefParse(calls[1].stdout)
           /\ merge_target_combo = RefParse(calls[1].stdout)
           /\ delete_branch_combo = RefParse(calls[1].stdout)
           /\ rename_branch_combo = RefParse(calls[1].stdout)
           /\ branch_for_push = RefParse(calls[1].stdout)
    /\ (handler = "refresh_remotes" /\ NCalls = 2 /\ calls[2].raised = "none") =>
           branch_for_push = RefParse(calls[2].stdout)

\* the blank-separated tokens of a text, gathered character by character
RECURSIVE RefScan(_, _, _)
RefScan(s, cur, acc) ==
    LET closed == IF cur = <<>> THEN acc ELSE Append(acc, cur) IN
    IF s = <<>> THEN closed
    ELSE IF IsSpace(Head(s)) THEN RefScan(Tail(s), <<>>, closed)
    ELSE RefScan(Tail(s), Append(cur, Head(s)), acc)

RefTokens(raw) == RefScan(raw, <<>>, <<>>)

\* C11: once the `remote` command of refresh_remotes has succeeded, the
\* remote selector holds exactly the blank-separated tokens of its standard
\* output, in order and none empty, whatever the selector held before.
C11_RemoteListIsTokens ==
    (handler = "refresh_remotes" /\ NCalls >= 1 /\ calls[1].raised = "none") =>
        /\ remote_list = RefTokens(calls[1].stdout)
        /\ \A i \in 1..Len(remote_list) :
               remote_list[i] # <<>> /\ \A k \in 1..Len(remote_list[i]) : ~IsSpace(remote_list[i][k])

W_C11 ==
    /\ handler = "refresh_remotes" /\ NCalls = 2
    /\ calls[1].stdout = <<"a", " ", "*", "\n">>
    /\ remote_list = <<<<"a">>, <<"*">>>>

Shown ==
    SelectSeq(appended, LAMBDA x : x.pane \notin { "history_text.clear", "command_input.clear" })

\* C13: for every feature, a command that exits non-zero is reported as an
\* error naming it, and the feature's success status and success output
\* line are not set.
C13_NonZeroExitIsAnError ==
    \A i \in 1..NCalls :
        calls[i].raised = "CalledProcessError" =>
            /\ Len(errors) = 1
            /\ IsInfix(ReprList(calls[i].args), errors[1])
            /\ status_label = Unchanged
            /\ Shown = <<>>

W_C13 ==
    /\ handler = "git_add" /\ NCalls = 1
    /\ calls[1].raised = "CalledProcessError" /\ Len(errors) = 1

\* C14 as stated: every feature other than the two list-parsing ones shows,
\* after a successful command, the captured standard output and no fixed
\* message in its place.
C14_EveryFeatureShowsStdout ==
    (/\ handler \notin { "refresh_branches", "refresh_remotes" }
     /\ NCalls > 0 /\ calls[NCalls].raised = "none") =>
        /\ Shown # <<>>
        /\ \A k \in 1..Len(Shown) : IsInfix(calls[NCalls].stdout, Shown[k].text)

\* the features that forward the captured output as it is
Forwarding ==
    { "git_init", "git_commit", "git_status", "create_branch", "delete_branch",
      "rename_branch", "handle_merge_branches", "git_fetch", "refresh_branch_history",
      "add_remote_custom", "git_push_advanced", "git_pull" }

\* C14 as amended: after a successful command the forwarding features show
\* the captured standard output of their last call unchanged, the terminal
\* shows it after the echoed command line, add all, the basic push and the
\* origin remote add show a fixed message instead, and the toolbar branch
\* change shows nothing.
C14_ShownAfterSuccess ==
    (NCalls > 0 /\ calls[NCalls].raised = "none") =>
        /\ handler \in Forwarding =>
               /\ Shown # <<>>
               /\ \A k \in 1..Len(Shown) : Shown[k].text = calls[NCalls].stdout
        /\ handler = "execute_command" =>
               /\ Len(Shown) = 1
               /\ Shown[1].text = <<"$ ">> \o Strip(inputs[1]) \o <<"\n">> \o calls[1].stdout
        /\ handler = "git_add" =>
               Shown = <<[pane |-> "output_text", text |-> <<"Files added to staging area">>]>>
        /\ handler = "git_push" =>
               Shown = <<[pane |-> "output_text", text |-> <<"Changes pushed successfully!">>]>>
        /\ handler = "add_remote" =>
               Shown = <<[pane |-> "output_text",
                          text |-> <<"Remote repository added successfully.">>]>>
        /\ handler = "change_branch" => Shown = <<>>

W_C14 ==
    /\ handler = "git_add" /\ NCalls = 1 /\ calls[1].raised = "none"
    /\ calls[1].stdout # <<>> /\ Len(Shown) = 1

\* C15: in the toolbar branch change, when `checkout -b <name>` exits
\* non-zero a second call `checkout <name>` is issued, and if that one
\* succeeds the status reads "Switched to branch: <name>" and no error is
\* shown.
C15_FallbackCheckout ==
    (handler = "change_branch" /\ NCalls >= 1 /\ calls[1].raised = "CalledProcessError") =>
        /\ NCalls = 2
        /\ calls[2].args = <<GIT, <<"checkout">>, inputs[1]>>
        /\ calls[2].raised = "none" =>
               /\ status_label = <<"Switched to branch: ">> \o inputs[1]
               /\ errors = <<>>

\* the inputs a feature requires, by position among the texts it reads
Required ==
    [h \in { "create_branch", "delete_branch", "add_remote", "git_push_advanced" } |-> { 1 }]
    @@ [h \in { "rename_branch", "handle_merge_branches", "add_remote_custom" } |-> { 1, 2 }]

\* C16: in branch create, delete and rename, merge, both remote adds and
\* the advanced push, a required input that is empty after trimming gives
\* one error and no call.
C16_EmptyInputRejected ==
    (handler \in DOMAIN Required /\ \E k \in Required[handler] : Blank(inputs[k])) =>
        calls = <<>> /\ Len(errors) = 1

W_C16 ==
    /\ handler = "rename_branch" /\ ~Blank(inputs[1]) /\ Blank(inputs[2])
    /\ calls = <<>> /\ Len(errors) = 1

\* C17: at most one child process is alive at any time; it is alive only
\* while a handler waits for it inside subprocess.run, so a handler's
\* second command starts after its first has exited and no handler starts
\* while a command runs.
C17_OneCommandAtATime ==
    /\ Len(live) <= 1
    /\ live # <<>> => in_slot /\ waiting /\ live[1] = Head(todo)

\* the merge running after its checkout has exited
W_C17 ==
    /\ handler = "handle_merge_branches" /\ NCalls = 1 /\ calls[1].raised = "none"
    /\ live = <<<<GIT, <<"merge">>, <<"a">>>>>>

C19_CurrentBranchIsLastSelection ==
    /\ current_branch = <<"main">>
    /\ [][IF handler' = "change_branch"
          THEN /\ current_branch' = inputs'[1]
               /\ (status_label' = <<"Switched to branch: ">> \o inputs'[1])
                      <=> Ok(calls'[Len(calls')])
               /\ ~Ok(calls'[Len(calls')]) => status_label' = Unchanged
          ELSE /\ current_branch' = current_branch
               /\ status_label'[1] # "Switched to branch: "
               /\ handler' = "git_push" =>
                      calls'[1].args[Len(calls'[1].args)] = current_branch]_vars

\* a failed switch that left its branch recorded
W_C19 ==
    /\ handler = "change_branch" /\ calls[1].raised = "CalledProcessError"
    /\ current_branch = inputs[1] /\ current_branch # <<"main">>
    /\ status_label = Unchanged

\* C20: the five branch selectors change only in a refresh whose
\* `branch --list` succeeded, and the remote selector only in a
\* refresh_remotes whose `remote` succeeded; a refresh_remotes whose
\* `remote` succeeded and whose `branch --list` failed has replaced the
\* remote selector, keeps the push selector and appends nothing.
C20_SelectorsReplacedAfterSuccess ==
    [][/\ (handler' = "refresh_branches" /\ (calls' = <<>> \/ ~Ok(calls'[1]))) =>
              UNCHANGED <<merge_source_combo, merge_target_combo, delete_branch_combo,
                          rename_branch_combo, branch_for_push>>
       /\ (handler' = "refresh_remotes" /\ ~Ok(calls'[1])) =>
              UNCHANGED <<remote_list, branch_for_push>>
       /\ (handler' = "refresh_remotes" /\ Len(calls') = 2 /\ ~Ok(calls'[2])) =>
              /\ remote_list' = ParseRemotes(calls'[1].stdout)
              /\ UNCHANGED branch_for_push
              /\ appended' = <<>>
       /\ <<merge_source_combo, merge_target_combo, delete_branch_combo,
            rename_branch_combo>>' # <<merge_source_combo, merge_target_combo,
                                       delete_branch_combo, rename_branch_combo>> =>
              handler' = "refresh_branches" /\ calls' # <<>> /\ Ok(calls'[1])
       /\ branch_for_push' # branch_for_push =>
              /\ handler' \in { "refresh_branches", "refresh_remotes" }
              /\ calls' # <<>> /\ Ok(calls'[Len(calls')])
       /\ remote_list' # remote_list =>
              handler' = "refresh_remotes" /\ Ok(calls'[1])]_vars

\* the remote selector replaced and the push selector kept
W_C20 ==
    /\ handler = "refresh_remotes" /\ NCalls = 2 /\ ~Ok(calls[2])
    /\ remote_list = ParseRemotes(calls[1].stdout) /\ remote_list # <<>>
    /\ branch_for_push = <<>> /\ appended = <<>>

\* C21: the merge-source, merge-target, delete and rename selectors always
\* hold the same list; a successful refresh_branches gives the push selector
\* that list too; create, delete, rename and merge change no selector.
C21_BranchSelectorsAgree ==
    /\ [](/\ merge_source_combo = merge_target_combo
          /\ merge_target_combo = delete_branch_combo
          /\ delete_branch_combo = rename_branch_combo)
    /\ [][/\ (handler' = "refresh_branches" /\ calls' # <<>> /\ Ok(calls'[1])) =>
                 branch_for_push' = merge_source_combo'
          /\ handler' \in { "create_branch", "delete_branch", "rename_branch",
                            "handle_merge_branches" } =>
                 UNCHANGED <<merge_source_combo, merge_target_combo, delete_branch_combo,
                             rename_branch_combo, branch_for_push, remote_list>>]_vars

\* a branch deleted and still listed, while the push selector holds another
\* list than the four
W_C21 ==
    /\ handler = "delete_branch" /\ NCalls = 1 /\ Ok(calls[1])
    /\ inputs[1] \in Selections(delete_branch_combo)
    /\ inputs[1] \in Selections(merge_source_combo)
    /\ branch_for_push # <<>> /\ branch_for_push # delete_branch_combo

\* an entry that is not empty, has no blank at either end and no marker
Clean(entry) ==
    /\ entry # <<>>
    /\ Strip(entry) = entry
    /\ \A k \in 1..Len(entry) : entry[k] # "*"

\* C22: every entry of the five branch selectors is non-empty, stripped and
\* free of "*"; the branch named in `branch -d`, `branch -m`, `checkout`,
\* `merge` and the advanced push is an entry of the selector it is read from.
C22_SelectorEntriesAreClean ==
    /\ \A combo \in { merge_source_combo, merge_target_combo, delete_branch_combo,
                      rename_branch_combo, branch_for_push } :
           \A k \in 1..Len(combo) : Clean(combo[k])
    /\ (handler = "delete_branch" /\ NCalls >= 1) =>
           calls[1].args[4] \in Selections(delete_branch_combo)
    /\ (handler = "rename_branch" /\ NCalls >= 1) =>
           calls[1].args[4] \in Selections(rename_branch_combo)
    /\ (handler = "handle_merge_branches" /\ NCalls >= 1) =>
           calls[1].args[3] \in Selections(merge_target_combo)
    /\ (handler = "handle_merge_branches" /\ NCalls >= 2) =>
           calls[2].args[3] \in Selections(merge_source_combo)
    /\ (handler = "git_push_advanced" /\ NCalls >= 1) =>
           calls[1].args[Len(calls[1].args)] \in Selections(branch_for_push)

\* the branch listed as "* a" deleted under the name "a"
W_C22 ==
    /\ handler = "delete_branch" /\ NCalls = 1
    /\ calls[1].args = <<GIT, <<"branch">>, <<"-d">>, <<"a">>>>
    /\ delete_branch_combo = <<<<"a">>, <<"b">>>>

====
